---- MODULE Spec2Model ----
(***************************************************************************)
(* Model of pipeline/compute_metrics.py: the three benchmark evaluators    *)
(* (MathEval, CodeEval, IFEval) and the streaming driver compute_metrics.  *)
(*                                                                         *)
(* A parsed JSON object (a Python dict) is a TLA+ function whose domain is *)
(* its set of keys.  The empty function stands for the falsy JSON values   *)
(* ({}, [], null, 0, "").  Python's None is the reserved value None.       *)
(* An instruction id is a sequence of one-character strings, so that       *)
(* str.split(":") is computed rather than assumed.                         *)
(*                                                                         *)
(* Input files hold one well-formed JSON value per line (the generation    *)
(* and evaluation jobs that write them are outside this program).          *)
(***************************************************************************)
EXTENDS Integers, Sequences, FiniteSets, TLC

(***************************************************************************)
(* Bounds of the model.                                                    *)
(***************************************************************************)
MaxStreams == 2      \* number of prediction files given to compute_metrics
MaxLen == 2          \* number of lines of the longest file
MaxGroup == 2        \* size of a group handed to update by a direct caller
MaxUpdates == 2      \* update calls a direct caller makes after reset

(***************************************************************************)
(* Values.                                                                 *)
(***************************************************************************)
None == "<None>"
Answers == {"2", "3"}
EmptyDict == [k \in {} |-> TRUE]

Families == {"math", "code", "ifeval"}
\* "other" stands for every string that no family implements
Modes == {"best", "majority", "first", "other"}

RECURSIVE SumBool(_)
SumBool(s) == IF s = <<>> THEN 0 ELSE (IF Head(s) THEN 1 ELSE 0) + SumBool(Tail(s))

AllTrue(s) == \A i \in 1..Len(s) : s[i]
AnyTrue(s) == \E i \in 1..Len(s) : s[i]
Min(a, b) == IF a <= b THEN a ELSE b

\* bool added to an int counter: True counts 1, False counts 0
B2I(b) == IF b THEN 1 ELSE 0

(***************************************************************************)
(* MathEval                                                                *)
(***************************************************************************)
MathEval_fill_up_missing == [predicted_answer |-> None, is_correct |-> FALSE]

MathEval_is_incomplete(elem) ==
    "is_correct" \notin DOMAIN elem \/ "predicted_answer" \notin DOMAIN elem

MathEval_reset == [total_correct |-> 0, total_no_answer |-> 0, total |-> 0]

\* collections.Counter(seq): the distinct elements in order of first
\* occurrence, each with its number of occurrences
RECURSIVE CounterAdd(_, _)
CounterAdd(counter, key) ==
    IF counter = <<>> THEN << <<key, 1>> >>
    ELSE IF Head(counter)[1] = key
         THEN << <<key, Head(counter)[2] + 1>> >> \o Tail(counter)
         ELSE << Head(counter) >> \o CounterAdd(Tail(counter), key)

RECURSIVE Counter(_)
Counter(seq) ==
    IF seq = <<>> THEN <<>>
    ELSE CounterAdd(Counter(SubSeq(seq, 1, Len(seq) - 1)), seq[Len(seq)])

\* a faulty variant of most_common_1: on equal counts the later entry replaces the
\* earlier one
RECURSIVE most_common_1_last(_)
most_common_1_last(counter) ==
    IF Len(counter) = 1 THEN counter[1]
    ELSE LET rest == most_common_1_last(SubSeq(counter, 1, Len(counter) - 1))
             last == counter[Len(counter)]
         IN  IF last[2] >= rest[2] THEN last ELSE rest

\* Counter.most_common(1)[0]: max(items, key=count), the first entry in
\* iteration order among those of the highest count
RECURSIVE most_common_1(_)
most_common_1(counter) ==
    IF Len(counter) = 1 THEN counter[1]
    ELSE LET rest == most_common_1(SubSeq(counter, 1, Len(counter) - 1))
             last == counter[Len(counter)]
         IN  IF last[2] > rest[2] THEN last ELSE rest

valid_answers_and_results(predictions) ==
    LET keep(elem) == elem.predicted_answer # None
        pair(elem) == <<elem.predicted_answer, elem.is_correct>>
        valid == SelectSeq(predictions, keep)
    IN  [i \in 1..Len(valid) |-> pair(valid[i])]

\* any([elem['is_correct'] for elem in predictions])
any_is_correct(predictions) ==
    \E i \in 1..Len(predictions) : predictions[i].is_correct

\* a faulty variant of all_no_answer: any() in the place of all()
all_no_answer_any(predictions) ==
    \E i \in 1..Len(predictions) : predictions[i].predicted_answer = None

\* all([elem['predicted_answer'] is None for elem in predictions])
all_no_answer(predictions) ==
    \A i \in 1..Len(predictions) : predictions[i].predicted_answer = None

\* MathEval.update: the evaluator after the call and the exception raised
\* ("" when the call returns)
MathEval_update(ev, predictions, aggregation_mode) ==
    LET e1 == [ev EXCEPT !.total = @ + 1] IN
    CASE aggregation_mode = "best" ->
           [ev |-> [e1 EXCEPT
                      !.total_correct = @ + B2I(any_is_correct(predictions)),
                      !.total_no_answer = @ + B2I(all_no_answer(predictions))],
            err |-> ""]
      [] aggregation_mode = "majority" ->
           LET valid == valid_answers_and_results(predictions) IN
           IF Len(valid) = 0
           THEN [ev |-> [e1 EXCEPT !.total_no_answer = @ + 1], err |-> ""]
           ELSE LET majority_result == most_common_1(Counter(valid))[1] IN
                [ev |-> [e1 EXCEPT !.total_correct = @ + B2I(majority_result[2])],
                 err |-> ""]
      [] aggregation_mode = "first" ->
           [ev |-> [e1 EXCEPT
                      !.total_correct = @ + B2I(predictions[1].is_correct),
                      !.total_no_answer = @ + B2I(predictions[1].predicted_answer = None)],
            err |-> ""]
      [] OTHER -> [ev |-> e1, err |-> "ValueError"]

(***************************************************************************)
(* Percentages.  correct / total * 100.0 is kept as the exact fraction     *)
(* 100 * correct / total in lowest terms, <<numerator, denominator>>.      *)
(***************************************************************************)
Abs(n) == IF n < 0 THEN -n ELSE n

RECURSIVE GCD(_, _)
GCD(a, b) == IF b = 0 THEN a ELSE GCD(b, a % b)

\* only applied with den > 0
Percent(num, den) ==
    LET g == GCD(Abs(100 * num), den) IN <<(100 * num) \div g, den \div g>>

\* no call of get_metrics yet, and a call that raised instead of returning
NoMetrics == [error |-> "none"]
Raised(exception) == [error |-> exception]

\* a faulty variant of MathEval_get_metrics: an empty run reports zeros
MathEval_get_metrics_guarded(ev) ==
    LET n == IF ev.total = 0 THEN 1 ELSE ev.total IN
    [ev |-> ev, err |-> "",
     metrics |-> [num_entries |-> ev.total,
                  correct_answer |-> Percent(ev.total_correct, n),
                  wrong_answer |-> Percent(ev.total - ev.total_correct
                                             - ev.total_no_answer, n),
                  no_answer |-> Percent(ev.total_no_answer, n)]]

MathEval_get_metrics(ev) ==
    IF ev.total = 0
    THEN [ev |-> ev, err |-> "ZeroDivisionError", metrics |-> Raised("ZeroDivisionError")]
    ELSE [ev |-> ev, err |-> "",
          metrics |-> [num_entries |-> ev.total,
                       correct_answer |-> Percent(ev.total_correct, ev.total),
                       wrong_answer |-> Percent(ev.total - ev.total_correct
                                                  - ev.total_no_answer, ev.total),
                       no_answer |-> Percent(ev.total_no_answer, ev.total)]]

(***************************************************************************)
(* CodeEval                                                                *)
(***************************************************************************)
CodeEval_fill_up_missing == [is_correct |-> FALSE, is_correct_plus |-> FALSE]

CodeEval_is_incomplete(elem) ==
    "is_correct" \notin DOMAIN elem \/ "is_correct_plus" \notin DOMAIN elem

CodeEval_reset == [total_correct |-> 0, total_correct_plus |-> 0, total |-> 0]

\* a faulty variant of CodeEval_update: every mode but 'best' is taken as 'first'
CodeEval_update_default_first(ev, predictions, aggregation_mode) ==
    LET e1 == [ev EXCEPT !.total = @ + 1] IN
    IF aggregation_mode = "best"
    THEN [ev |-> [e1 EXCEPT
                    !.total_correct = @ + B2I(any_is_correct(predictions)),
                    !.total_correct_plus = @ + B2I(\E i \in 1..Len(predictions) :
                                                     predictions[i].is_correct_plus)],
          err |-> ""]
    ELSE [ev |-> [e1 EXCEPT
                    !.total_correct = @ + B2I(predictions[1].is_correct),
                    !.total_correct_plus = @ + B2I(predictions[1].is_correct_plus)],
          err |-> ""]

CodeEval_update(ev, predictions, aggregation_mode) ==
    LET e1 == [ev EXCEPT !.total = @ + 1] IN
    CASE aggregation_mode = "best" ->
           [ev |-> [e1 EXCEPT
                      !.total_correct = @ + B2I(any_is_correct(predictions)),
                      !.total_correct_plus = @ + B2I(\E i \in 1..Len(predictions) :
                                                       predictions[i].is_correct_plus)],
            err |-> ""]
      [] aggregation_mode = "first" ->
           [ev |-> [e1 EXCEPT
                      !.total_correct = @ + B2I(predictions[1].is_correct),
                      !.total_correct_plus = @ + B2I(predictions[1].is_correct_plus)],
            err |-> ""]
      [] OTHER -> [ev |-> e1, err |-> "ValueError"]

CodeEval_get_metrics(ev) ==
    IF ev.total = 0
    THEN [ev |-> ev, err |-> "ZeroDivisionError", metrics |-> Raised("ZeroDivisionError")]
    ELSE [ev |-> ev, err |-> "",
          metrics |-> [num_entries |-> ev.total,
                       passing_base_tests |-> Percent(ev.total_correct, ev.total),
                       passing_plus_tests |-> Percent(ev.total_correct_plus, ev.total)]]

(***************************************************************************)
(* IFEval                                                                  *)
(***************************************************************************)
required_keys == {"follow_instruction_list", "instruction_id_list"}

IFEval_fill_up_missing ==
    [loose_eval |-> [follow_instruction_list |-> <<>>, instruction_id_list |-> <<>>],
     strict_eval |-> [follow_instruction_list |-> <<>>, instruction_id_list |-> <<>>]]

IFEval_is_incomplete(elem) ==
    IF "loose_eval" \notin DOMAIN elem \/ "strict_eval" \notin DOMAIN elem THEN TRUE
    ELSE IF \E key \in required_keys : key \notin DOMAIN elem.loose_eval THEN TRUE
    ELSE IF \E key \in required_keys : key \notin DOMAIN elem.strict_eval THEN TRUE
    ELSE FALSE

\* instruction_id.split(":")[0]: the characters before the first ":"
RECURSIVE split_0(_)
split_0(instruction_id) ==
    IF instruction_id = <<>> \/ Head(instruction_id) = ":" THEN <<>>
    ELSE <<Head(instruction_id)>> \o split_0(Tail(instruction_id))

InstructionIds == { <<"p", ":", "n">>, <<"l", ":", "w">>, <<"l">> }
Categories == { split_0(id) : id \in InstructionIds }

\* defaultdict(int): every key reads as 0 until it is counted
EmptyTally == [c \in Categories |-> 0]
EmptyStats ==
    [prompt |-> [total |-> 0, correct |-> 0],
     instruction |-> [total |-> 0, correct |-> 0],
     tier0 |-> [total |-> EmptyTally, correct |-> EmptyTally]]

IFEval_reset == [strict_stats |-> EmptyStats, loose_stats |-> EmptyStats]

\* one pass of the "pass@k" loop: follow[i] or elem['follow_instruction_list'][i]
\* for i in range(len(follow)); the right operand is read only when follow[i]
\* is false, and reading past the end of a shorter list raises IndexError
or_raises(follow, elem) ==
    \E i \in 1..Len(follow) :
        ~follow[i] /\ i > Len(elem.follow_instruction_list)

\* a faulty variant of or_step: the element's answer replaces the accumulated one
or_step_last(follow, elem) ==
    [i \in 1..Len(follow) |->
        IF i <= Len(elem.follow_instruction_list)
        THEN elem.follow_instruction_list[i] ELSE follow[i]]

or_step(follow, elem) ==
    [i \in 1..Len(follow) |->
        IF follow[i] THEN TRUE ELSE elem.follow_instruction_list[i]]

\* the loop over elems from position k on: the resolved list, or the error
RECURSIVE or_loop(_, _, _)
or_loop(follow, elems, k) ==
    IF k > Len(elems) THEN [follow |-> follow, err |-> ""]
    ELSE IF or_raises(follow, elems[k]) THEN [follow |-> follow, err |-> "IndexError"]
    ELSE or_loop(or_step(follow, elems[k]), elems, k + 1)

\* the tier0 loop over zip(instruction_id_list, follow_instruction_list)
RECURSIVE tier0_loop(_, _, _, _)
tier0_loop(tier0, ids, follow, k) ==
    IF k > Min(Len(ids), Len(follow)) THEN tier0
    ELSE LET c == split_0(ids[k])
             t1 == [tier0 EXCEPT !.total[c] = @ + 1]
             t2 == IF follow[k] THEN [t1 EXCEPT !.correct[c] = @ + 1] ELSE t1
         IN  tier0_loop(t2, ids, follow, k + 1)

\* a faulty variant of prompt_followed: one followed instruction is enough
prompt_followed_any(follow_instruction_list) == AnyTrue(follow_instruction_list)

\* all(follow_instruction_list)
prompt_followed(follow_instruction_list) == AllTrue(follow_instruction_list)

IFEval_update_single_stat(stats_dict, elems) ==
    LET instruction_id_list == elems[1].instruction_id_list
        r == or_loop(elems[1].follow_instruction_list, elems, 1)
        follow_instruction_list == r.follow
    IN  IF r.err # "" THEN [stats |-> stats_dict, err |-> r.err]
        ELSE [stats |->
                [prompt |->
                   [total |-> stats_dict.prompt.total + 1,
                    correct |-> stats_dict.prompt.correct
                                  + B2I(prompt_followed(follow_instruction_list))],
                 instruction |->
                   [total |-> stats_dict.instruction.total + Len(instruction_id_list),
                    correct |-> stats_dict.instruction.correct
                                  + SumBool(follow_instruction_list)],
                 tier0 |-> tier0_loop(stats_dict.tier0, instruction_id_list,
                                      follow_instruction_list, 1)],
              err |-> ""]

StrictEvals(predictions) == [i \in 1..Len(predictions) |-> predictions[i].strict_eval]
LooseEvals(predictions) == [i \in 1..Len(predictions) |-> predictions[i].loose_eval]

\* strict first, then loose: an error in the loose pass leaves the strict
\* statistics already updated
IFEval_update_both(ev, strict_elems, loose_elems) ==
    LET s == IFEval_update_single_stat(ev.strict_stats, strict_elems) IN
    IF s.err # "" THEN [ev |-> ev, err |-> s.err]
    ELSE LET l == IFEval_update_single_stat(ev.loose_stats, loose_elems) IN
         [ev |-> [strict_stats |-> s.stats, loose_stats |-> l.stats], err |-> l.err]

IFEval_update(ev, predictions, aggregation_mode) ==
    CASE aggregation_mode = "best" ->
           IFEval_update_both(ev, StrictEvals(predictions), LooseEvals(predictions))
      [] aggregation_mode = "first" ->
           IFEval_update_both(ev, <<predictions[1].strict_eval>>,
                                  <<predictions[1].loose_eval>>)
      [] OTHER -> [ev |-> ev, err |-> "ValueError"]

\* a faulty variant of IFEval_get_metrics: reading the totals counts a prompt
IFEval_get_metrics_counting(ev) ==
    LET e1 == [ev EXCEPT !.strict_stats.prompt.total = @ + 1]
        prompt_total == e1.strict_stats.prompt.total
        inst_total == e1.strict_stats.instruction.total
    IN  IF inst_total = 0
        THEN [ev |-> e1, err |-> "ZeroDivisionError",
              metrics |-> Raised("ZeroDivisionError")]
        ELSE [ev |-> e1, err |-> "",
              metrics |->
                [num_prompts |-> prompt_total,
                 num_instructions |-> inst_total,
                 prompt_strict_accuracy |->
                     Percent(e1.strict_stats.prompt.correct, prompt_total),
                 instruction_strict_accuracy |->
                     Percent(e1.strict_stats.instruction.correct, inst_total),
                 prompt_loose_accuracy |->
                     Percent(e1.loose_stats.prompt.correct, prompt_total),
                 instruction_loose_accuracy |->
                     Percent(e1.loose_stats.instruction.correct, inst_total)]]

IFEval_get_metrics(ev) ==
    LET prompt_total == ev.strict_stats.prompt.total
        inst_total == ev.strict_stats.instruction.total
    IN  IF prompt_total = 0 \/ inst_total = 0
        THEN [ev |-> ev, err |-> "ZeroDivisionError", metrics |-> Raised("ZeroDivisionError")]
        ELSE [ev |-> ev, err |-> "",
              metrics |->
                [num_prompts |-> prompt_total,
                 num_instructions |-> inst_total,
                 prompt_strict_accuracy |->
                     Percent(ev.strict_stats.prompt.correct, prompt_total),
                 instruction_strict_accuracy |->
                     Percent(ev.strict_stats.instruction.correct, inst_total),
                 prompt_loose_accuracy |->
                     Percent(ev.loose_stats.prompt.correct, prompt_total),
                 instruction_loose_accuracy |->
                     Percent(ev.loose_stats.instruction.correct, inst_total)]]

(***************************************************************************)
(* The evaluator interface, by family (EVALUATOR_MAP picks the class).     *)
(***************************************************************************)
fill_up_missing(family) ==
    CASE family = "math" -> MathEval_fill_up_missing
      [] family = "code" -> CodeEval_fill_up_missing
      [] family = "ifeval" -> IFEval_fill_up_missing

is_incomplete(family, elem) ==
    CASE family = "math" -> MathEval_is_incomplete(elem)
      [] family = "code" -> CodeEval_is_incomplete(elem)
      [] family = "ifeval" -> IFEval_is_incomplete(elem)

reset(family) ==
    CASE family = "math" -> MathEval_reset
      [] family = "code" -> CodeEval_reset
      [] family = "ifeval" -> IFEval_reset

update(family, ev, predictions, aggregation_mode) ==
    CASE family = "math" -> MathEval_update(ev, predictions, aggregation_mode)
      [] family = "code" -> CodeEval_update(ev, predictions, aggregation_mode)
      [] family = "ifeval" -> IFEval_update(ev, predictions, aggregation_mode)

get_metrics(family, ev) ==
    CASE family = "math" -> MathEval_get_metrics(ev)
      [] family = "code" -> CodeEval_get_metrics(ev)
      [] family = "ifeval" -> IFEval_get_metrics(ev)

(***************************************************************************)
(* The judgment records the files may hold.                                *)
(***************************************************************************)
MathRecords ==
    [predicted_answer : Answers \cup {None}, is_correct : BOOLEAN]

CodeRecords == [is_correct : BOOLEAN, is_correct_plus : BOOLEAN]

Block(ids, follow) == [instruction_id_list |-> ids, follow_instruction_list |-> follow]
IFRecord(strict, loose) == [strict_eval |-> strict, loose_eval |-> loose]

IdsPL == << <<"p", ":", "n">>, <<"l", ":", "w">> >>
IdsL == << <<"l">> >>

IFRecords ==
    { IFRecord(Block(IdsPL, <<TRUE, FALSE>>), Block(IdsPL, <<TRUE, TRUE>>)),
      IFRecord(Block(IdsPL, <<FALSE, TRUE>>), Block(IdsPL, <<FALSE, TRUE>>)),
      IFRecord(Block(IdsPL, <<FALSE, FALSE>>), Block(IdsPL, <<TRUE, FALSE>>)),
      IFRecord(Block(IdsL, <<FALSE>>), Block(IdsL, <<TRUE>>)),
      IFRecord(Block(IdsL, <<TRUE>>), Block(IdsL, <<TRUE>>)),
      IFRecord(Block(IdsL, <<FALSE>>), Block(IdsPL, <<FALSE, TRUE>>)) }

Records(family) ==
    CASE family = "math" -> MathRecords
      [] family = "code" -> CodeRecords
      [] family = "ifeval" -> IFRecords

\* JSON objects that lack a required key
IncompleteDicts(family) ==
    CASE family = "math" -> { [predicted_answer |-> "2"] }
      [] family = "code" -> { [is_correct |-> TRUE] }
      [] family = "ifeval" ->
           { [strict_eval |-> Block(IdsL, <<TRUE>>),
              loose_eval |-> [instruction_id_list |-> IdsL]] }

\* the complete records the prediction files hold
FileRecords(family) ==
    CASE family = "math" ->
           { [predicted_answer |-> "2", is_correct |-> TRUE],
             [predicted_answer |-> "3", is_correct |-> FALSE],
             [predicted_answer |-> None, is_correct |-> FALSE] }
      [] family = "code" ->
           { [is_correct |-> TRUE, is_correct_plus |-> FALSE],
             [is_correct |-> TRUE, is_correct_plus |-> TRUE],
             [is_correct |-> FALSE, is_correct_plus |-> FALSE] }
      [] family = "ifeval" ->
           { IFRecord(Block(IdsPL, <<TRUE, FALSE>>), Block(IdsPL, <<TRUE, TRUE>>)),
             IFRecord(Block(IdsPL, <<FALSE, TRUE>>), Block(IdsPL, <<FALSE, TRUE>>)),
             IFRecord(Block(IdsL, <<FALSE>>), Block(IdsL, <<TRUE>>)) }

\* what json.loads returns for a line of a file
LineValues(family) ==
    {EmptyDict} \cup IncompleteDicts(family) \cup FileRecords(family)

\* zip_longest yields None for a file that has no line left
Absent == [present |-> FALSE, value |-> EmptyDict]
Line(v) == [present |-> TRUE, value |-> v]

\* an evaluator that an earlier run has used
UsedEvaluator(family) ==
    update(family, reset(family), <<CHOOSE r \in Records(family) : TRUE>>, "first").ev

(***************************************************************************)
(* State.                                                                  *)
(***************************************************************************)
VARIABLES
    family,            \* the evaluator class
    aggregation_mode,  \* argument of compute_metrics / of the last update call
    allow_incomplete,  \* argument of compute_metrics
    max_samples,       \* argument of compute_metrics
    lens,              \* number of lines of each prediction file
    file_handles,      \* "open" or "closed" per opened file; <<>> before open
    idx,               \* the loop index of enumerate
    pc,                \* position in compute_metrics, "caller" outside it
    ev,                \* the evaluator's counters
    raised,            \* the exception that ended the last call, "" if none
    metrics,           \* what get_metrics returned last
    updates,           \* history: the indices whose group update was called on
    data,              \* history: the group of a direct caller's last update call
    lines,             \* the tuple zip_longest yielded, while the loop body runs
    substituted,       \* history: which records of this index's group are placeholders
    prev_ev,           \* history: the counters before the last call of this round
    prev_metrics,      \* history: what get_metrics returned before metrics
    last_call,         \* history: the evaluator method called last
    prev_call          \* history: the evaluator method called before it

vars == <<family, aggregation_mode, allow_incomplete, max_samples, lens,
          file_handles, idx, pc, ev, raised, metrics, updates, data,
          lines, substituted, prev_ev, prev_metrics, last_call, prev_call>>

inputs == <<family, aggregation_mode, allow_incomplete, max_samples, lens>>

history ==
    <<updates, data, substituted, prev_ev, prev_metrics, last_call, prev_call>>

\* number of lines of the longest file: where zip_longest stops
Longest == IF lens = <<>> THEN 0
           ELSE CHOOSE n \in 0..MaxLen :
                  /\ \E s \in 1..Len(lens) : lens[s] = n
                  /\ \A s \in 1..Len(lens) : lens[s] <= n

Init ==
    /\ family \in Families
    /\ aggregation_mode \in Modes
    /\ allow_incomplete \in BOOLEAN
    /\ max_samples \in -1..MaxLen
    /\ lens \in UNION { [1..n -> 0..MaxLen] : n \in 0..MaxStreams }
    /\ file_handles = <<>>
    /\ idx = 0
    /\ pc = "open"
    /\ ev \in {reset(family), UsedEvaluator(family)}
    /\ raised = ""
    /\ metrics = NoMetrics
    /\ updates = <<>>
    /\ data = <<>>
    /\ lines = <<>>
    /\ substituted = <<>>
    /\ prev_ev = ev
    /\ prev_metrics = NoMetrics
    /\ last_call = "__init__"
    /\ prev_call = "none"

(***************************************************************************)
(* compute_metrics                                                         *)
(***************************************************************************)
\* file_handles = [open(file, ...) for file in unroll_files(...)]
OpenFiles ==
    /\ pc = "open"
    /\ file_handles' = [s \in 1..Len(lens) |-> "open"]
    /\ pc' = "reset"
    /\ UNCHANGED <<inputs, idx, ev, raised, metrics, lines, history>>

\* evaluator.reset()
Reset ==
    /\ pc = "reset"
    /\ prev_ev' = ev
    /\ ev' = reset(family)
    /\ last_call' = "reset"
    /\ prev_call' = last_call
    /\ pc' = "loop"
    /\ UNCHANGED <<inputs, file_handles, idx, raised, metrics, updates, data,
                   lines, substituted, prev_metrics>>

\* the tuples zip_longest can yield at index idx
LinesAt(i) ==
    { t \in [1..Len(lens) -> {Absent} \cup { Line(v) : v \in LineValues(family) }] :
        \A s \in 1..Len(lens) : t[s].present <=> i < lens[s] }

\* the three tests of the inner loop, in their order
IsMissing(line) ==
    IF ~line.present THEN TRUE
    ELSE IF DOMAIN line.value = {} THEN TRUE
    ELSE is_incomplete(family, line.value)

AnyMissing(t) == \E s \in 1..Len(t) : IsMissing(t[s])

\* data after the inner loop, when no exception left it
BuildData(t) ==
    [s \in 1..Len(t) |->
        IF IsMissing(t[s]) THEN fill_up_missing(family) ELSE t[s].value]

\* a faulty variant of AtCutoff: 0 read as "no cutoff"
AtCutoff_truthy == max_samples > 0 /\ idx = max_samples

\* if idx == max_samples
AtCutoff == idx = max_samples

\* for idx, lines in enumerate(zip_longest(*file_handles)): the next tuple
NextLines ==
    /\ pc = "loop"
    /\ idx < Longest
    /\ ~AtCutoff
    /\ lines' \in LinesAt(idx)
    /\ pc' = "body"
    /\ substituted' = <<>>
    /\ prev_ev' = ev
    /\ UNCHANGED <<inputs, file_handles, idx, ev, raised, metrics, updates, data,
                   prev_metrics, last_call, prev_call>>

\* zip_longest is exhausted
Exhausted ==
    /\ pc = "loop"
    /\ idx >= Longest
    /\ pc' = "close"
    /\ UNCHANGED <<inputs, file_handles, idx, ev, raised, metrics, lines, history>>

\* a tuple is yielded and: if idx == max_samples: break
Break ==
    /\ pc = "loop"
    /\ idx < Longest
    /\ AtCutoff
    /\ pc' = "close"
    /\ UNCHANGED <<inputs, file_handles, idx, ev, raised, metrics, lines, history>>

\* the inner loop meets a missing record with allow_incomplete false
MissingRaises == pc = "body" /\ ~allow_incomplete /\ AnyMissing(lines)

\* a faulty variant of DataComplete: a missing record is always substituted
DataComplete_always == pc = "body"

\* the inner loop runs to its end
DataComplete == pc = "body" /\ (allow_incomplete \/ ~AnyMissing(lines))

\* raise RuntimeError("Some data is missing!")
RaiseMissing ==
    /\ MissingRaises
    /\ pc' = "raised"
    /\ raised' = "RuntimeError"
    /\ substituted' = [s \in 1..Len(lines) |-> IsMissing(lines[s])]
    /\ lines' = <<>>
    /\ UNCHANGED <<inputs, file_handles, idx, ev, metrics, updates, data, prev_ev,
                   prev_metrics, last_call, prev_call>>

CallUpdate(r) ==
    /\ updates' = Append(updates, idx)
    /\ data' = data
    /\ substituted' = [s \in 1..Len(lines) |-> IsMissing(lines[s])]
    /\ prev_ev' = ev
    /\ ev' = r.ev
    /\ raised' = r.err
    /\ last_call' = "update"
    /\ prev_call' = last_call
    /\ lines' = <<>>

\* evaluator.update(data, aggregation_mode) returns: on to the next index
Update ==
    /\ DataComplete
    /\ LET r == update(family, ev, BuildData(lines), aggregation_mode) IN
         /\ r.err = ""
         /\ CallUpdate(r)
    /\ idx' = idx + 1
    /\ pc' = "loop"
    /\ UNCHANGED <<inputs, file_handles, metrics, prev_metrics>>

\* evaluator.update(data, aggregation_mode) raises: the exception leaves
\* compute_metrics
UpdateRaises ==
    /\ DataComplete
    /\ LET r == update(family, ev, BuildData(lines), aggregation_mode) IN
         /\ r.err # ""
         /\ CallUpdate(r)
    /\ pc' = "raised"
    /\ UNCHANGED <<inputs, file_handles, idx, metrics, prev_metrics>>

\* for file_handle in file_handles: file_handle.close()
CloseFiles ==
    /\ pc = "close"
    /\ file_handles' = [s \in 1..Len(file_handles) |-> "closed"]
    /\ pc' = "get_metrics"
    /\ UNCHANGED <<inputs, idx, ev, raised, metrics, lines, history>>

CallGetMetrics(r) ==
    /\ prev_ev' = ev
    /\ ev' = r.ev
    /\ prev_metrics' = metrics
    /\ metrics' = r.metrics
    /\ raised' = r.err
    /\ last_call' = "get_metrics"
    /\ prev_call' = last_call

\* return evaluator.get_metrics()
ReturnMetrics ==
    /\ pc = "get_metrics"
    /\ LET r == get_metrics(family, ev) IN
         /\ CallGetMetrics(r)
         /\ pc' = IF r.err = "" THEN "returned" ELSE "raised"
    /\ UNCHANGED <<inputs, file_handles, idx, updates, data, lines, substituted>>

(***************************************************************************)
(* A direct caller of an evaluator object: any sequence of update and      *)
(* get_metrics calls on a constructed evaluator (__init__ calls reset).    *)
(* An exception leaves the object as the failed call left it.  The history *)
(* variables describe the calls of the caller's current round; Continue    *)
(* starts the next round.                                                  *)
(***************************************************************************)
InitEval ==
    /\ family \in Families
    /\ aggregation_mode = "first"
    /\ allow_incomplete = FALSE
    /\ max_samples = -1
    /\ lens = <<>>
    /\ file_handles = <<>>
    /\ idx = 0
    /\ pc = "caller"
    /\ ev = reset(family)
    /\ raised = ""
    /\ metrics = NoMetrics
    /\ updates = <<>>
    /\ data = <<>>
    /\ lines = <<>>
    /\ substituted = <<>>
    /\ prev_ev = ev
    /\ prev_metrics = NoMetrics
    /\ last_call = "__init__"
    /\ prev_call = "none"

\* the groups a caller may pass: records of the family's schema, the
\* placeholder of fill_up_missing among them
Groups ==
    UNION { [1..n -> Records(family) \cup {fill_up_missing(family)}] : n \in 1..MaxGroup }

\* evaluator.update(predictions, mode)
Call_update ==
    /\ pc = "caller"
    /\ Len(updates) < MaxUpdates
    /\ \E predictions \in Groups, mode \in Modes :
         LET r == update(family, ev, predictions, mode) IN
           /\ aggregation_mode' = mode
           /\ updates' = Append(updates, Len(updates))
           /\ data' = predictions
           /\ prev_ev' = ev
           /\ ev' = r.ev
           /\ raised' = r.err
    /\ last_call' = "update"
    /\ prev_call' = last_call
    /\ pc' = "called"
    /\ UNCHANGED <<family, allow_incomplete, max_samples, lens, file_handles, idx,
                   metrics, lines, substituted, prev_metrics>>

\* evaluator.get_metrics()
Call_get_metrics ==
    /\ pc \in {"caller", "called"}
    /\ CallGetMetrics(get_metrics(family, ev))
    /\ pc' = "called"
    /\ UNCHANGED <<inputs, file_handles, idx, updates, data, lines, substituted>>

\* the caller goes on to its next round
Continue ==
    /\ pc = "called"
    /\ pc' = "caller"
    /\ data' = <<>>
    /\ prev_ev' = ev
    /\ raised' = ""
    /\ metrics' = NoMetrics
    /\ prev_metrics' = NoMetrics
    /\ last_call' = "none"
    /\ prev_call' = "none"
    /\ aggregation_mode' = "first"
    /\ UNCHANGED <<family, allow_incomplete, max_samples, lens, file_handles, idx,
                   ev, updates, lines, substituted>>

NextEval ==
    \/ Call_update
    \/ Call_get_metrics
    \/ Continue

SpecEval == InitEval /\ [][NextEval]_vars

Next ==
    \/ OpenFiles
    \/ Reset
    \/ NextLines
    \/ Exhausted
    \/ Break
    \/ RaiseMissing
    \/ Update
    \/ UpdateRaises
    \/ CloseFiles
    \/ ReturnMetrics

Spec == Init /\ [][Next]_vars

(***************************************************************************)
(* Properties of compute_metrics (checked under Spec).                     *)
(***************************************************************************)
SupportedModes(f) == IF f = "math" THEN {"best", "majority", "first"}
                     ELSE {"best", "first"}

\* the counters that count something as correct
CorrectCounters(f, e) ==
    CASE f = "math" -> <<e.total_correct>>
      [] f = "code" -> <<e.total_correct, e.total_correct_plus>>
      [] f = "ifeval" -> <<e.strict_stats.prompt.correct,
                           e.strict_stats.instruction.correct,
                           e.loose_stats.prompt.correct,
                           e.loose_stats.instruction.correct>>

\* the records of the tuple that were really read
PresentRecords(t) ==
    LET real(line) == ~IsMissing(line)
        kept == SelectSeq(t, real)
    IN  [s \in 1..Len(kept) |-> kept[s].value]

\* C1: with allow_incomplete true, a group that holds a substituted
\* (fill_up_missing) record is folded without an error the records really
\* read would not raise by themselves, and a 'correct' counter increases only
\* if it also increases for the group without the substituted records.
C1_SubstitutedNeverCorrect ==
    [][ (DataComplete /\ allow_incomplete /\ AnyMissing(lines)
           /\ aggregation_mode \in SupportedModes(family))
        => LET real == PresentRecords(lines)
               alone == update(family, ev, real, aggregation_mode)
               before == CorrectCounters(family, ev)
               after == CorrectCounters(family, ev')
           IN  /\ (real = <<>> \/ alone.err = "") => raised' = ""
               /\ \A k \in 1..Len(before) :
                    after[k] > before[k]
                      => /\ real # <<>>
                         /\ CorrectCounters(family, alone.ev)[k] > before[k] ]_vars

\* C2: in every terminal state of compute_metrics (a return or an exception)
\* every opened file handle is closed.
C2_HandlesClosedOnExit ==
    pc \in {"returned", "raised"}
      => \A s \in 1..Len(file_handles) : file_handles[s] = "closed"

\* C3: with allow_incomplete false, once the tuple of an index holds an
\* absent, falsy or incomplete record, the only step compute_metrics takes is
\* to raise the missing-data error: update is not called for that group,
\* the counters are untouched and no metrics are returned; and a run ended
\* by that error has folded the earlier groups only.
C3_MissingDataIsFatal ==
    /\ [][ (pc = "body" /\ ~allow_incomplete /\ AnyMissing(lines))
           => /\ pc' = "raised"
              /\ raised' = "RuntimeError"
              /\ updates' = updates
              /\ ev' = ev
              /\ metrics' = NoMetrics ]_vars
    /\ [](~allow_incomplete =>
            /\ (last_call = "update" /\ raised # "RuntimeError")
                  => \A s \in 1..Len(substituted) : ~substituted[s]
            /\ (pc = "raised" /\ raised = "RuntimeError")
                  => (metrics = NoMetrics /\ Len(updates) = idx))

\* a shorter file has run out at index 1, after one group was folded
C3_Witness ==
    /\ pc = "raised"
    /\ raised = "RuntimeError"
    /\ ~allow_incomplete
    /\ idx = 1
    /\ updates = <<0>>
    /\ \E s \in 1..Len(lens) : lens[s] = 1 /\ substituted[s]

\* the loop has ended without an exception
LoopDone ==
    \/ pc \in {"close", "get_metrics", "returned"}
    \/ pc = "raised" /\ last_call = "get_metrics"

FoldedExpected ==
    LET n == IF max_samples >= 0 THEN Min(max_samples, Longest) ELSE Longest
    IN  [i \in 1..n |-> i - 1]

\* C4: when the loop ends without an exception, update has been called on
\* exactly the groups of indices 0 .. min(max_samples, L) - 1 in increasing
\* order (L the length of the longest file), on all L of them when
\* max_samples < 0 and on none when max_samples = 0.
C4_FoldedCount == LoopDone => updates = FoldedExpected

\* the cutoff stops a two-line run after one group
C4_Witness ==
    /\ pc = "returned"
    /\ max_samples = 1
    /\ Longest = 2
    /\ updates = <<0>>

\* C6: with an aggregation mode the family does not implement, the first
\* update call raises the unsupported-mode error, which ends the run; no
\* second update is made and compute_metrics never returns metrics.
C6_UnsupportedModeFatal ==
    aggregation_mode \notin SupportedModes(family)
      => /\ pc # "returned"
         /\ Len(updates) <= 1
         /\ updates # <<>> => (pc = "raised" /\ raised = "ValueError"
                                 /\ metrics = NoMetrics)

\* 'majority' asked of the Code family
C6_Witness ==
    /\ family = "code"
    /\ aggregation_mode = "majority"
    /\ pc = "raised"
    /\ raised = "ValueError"
    /\ updates = <<0>>

\* C7: get_metrics called when no group was folded since reset raises the
\* division error; compute_metrics then returns no metrics.
C7_EmptyRunRaises ==
    (last_call = "get_metrics" /\ updates = <<>>)
      => /\ pc = "raised"
         /\ raised = "ZeroDivisionError"
         /\ metrics = Raised("ZeroDivisionError")

\* max_samples = 0 over non-empty files, with an evaluator used before
C7_Witness ==
    /\ last_call = "get_metrics"
    /\ updates = <<>>
    /\ max_samples = 0
    /\ Longest > 0
    /\ family = "math"
    /\ raised = "ZeroDivisionError"

(***************************************************************************)
(* Properties of the evaluators (checked under SpecEval).                  *)
(***************************************************************************)
AfterUpdate(f, mode) ==
    last_call = "update" /\ family = f /\ aggregation_mode = mode

\* positions of the last group that carry an answer, their pairs, and how
\* often the pair of a position occurs
Answered == { i \in 1..Len(data) : data[i].predicted_answer # None }
PairAt(i) == <<data[i].predicted_answer, data[i].is_correct>>
Votes(i) == Cardinality({ j \in Answered : PairAt(j) = PairAt(i) })

\* the first position whose pair no other pair outnumbers
MajorityPosition ==
    CHOOSE i \in Answered :
        /\ \A j \in Answered : Votes(j) <= Votes(i)
        /\ \A j \in Answered : j < i => Votes(j) < Votes(i)

C8_GetMetricsPure ==
    /\ last_call = "get_metrics" => ev = prev_ev
    /\ (last_call = "get_metrics" /\ prev_call = "get_metrics")
         => metrics = prev_metrics

\* two get_metrics calls in a row after two updates, returning percentages
C8_Witness ==
    /\ last_call = "get_metrics"
    /\ prev_call = "get_metrics"
    /\ Len(updates) = 2
    /\ raised = ""
    /\ metrics = prev_metrics
    /\ "error" \notin DOMAIN metrics

\* the judgment block of a record at a strictness level
BlockOf(rec, level) == IF level = "strict" THEN rec.strict_eval ELSE rec.loose_eval
StatsOf(e, level) == IF level = "strict" THEN e.strict_stats ELSE e.loose_stats
Levels == {"strict", "loose"}

\* every record of the last group has the same instruction_id_list, at both
\* levels
SharedIds ==
    \A level \in Levels : \A k \in 1..Len(data) :
        BlockOf(data[k], level).instruction_id_list
          = BlockOf(data[1], level).instruction_id_list

IdsOf(level) == BlockOf(data[1], level).instruction_id_list

\* element-wise OR over the group
Resolved(level) ==
    [i \in 1..Len(IdsOf(level)) |->
        \E k \in 1..Len(data) : BlockOf(data[k], level).follow_instruction_list[i]]

\* the text of an id before its first ":", the whole id when it has none
CategoryOf(id) ==
    LET colons == { i \in 1..Len(id) : id[i] = ":" }
        stop == IF colons = {} THEN Len(id) + 1
                ELSE CHOOSE i \in colons : \A j \in colons : i <= j
    IN  SubSeq(id, 1, stop - 1)

BestAsSpecified(level) ==
    LET ids == IdsOf(level)
        follow == Resolved(level)
        now == StatsOf(ev, level)
        was == StatsOf(prev_ev, level)
        followed == { i \in 1..Len(ids) : follow[i] }
    IN  /\ now.prompt.total = was.prompt.total + 1
        /\ now.prompt.correct
             = was.prompt.correct + B2I(followed = 1..Len(ids))
        /\ now.instruction.total = was.instruction.total + Len(ids)
        /\ now.instruction.correct = was.instruction.correct + Cardinality(followed)
        /\ \A c \in Categories :
             LET of_c == { i \in 1..Len(ids) : CategoryOf(ids[i]) = c } IN
             /\ now.tier0.total[c] = was.tier0.total[c] + Cardinality(of_c)
             /\ now.tier0.correct[c]
                  = was.tier0.correct[c] + Cardinality(of_c \cap followed)

\* a single record that carries the resolved lists
ResolvedRecord ==
    IFRecord(Block(IdsOf("strict"), Resolved("strict")),
             Block(IdsOf("loose"), Resolved("loose")))

\* C9: IFEval.update in 'best' mode on a group whose records share their
\* instruction_id_list: at each level the follow lists are OR-ed
\* element-wise; prompt total +1 and prompt correct +1 exactly when every
\* resolved entry is true; instruction total + the list length, instruction
\* correct + the number of true entries; each entry's category total +1 and
\* correct +1 exactly when the entry is true; the counters end as 'first'
\* mode leaves them on one record carrying the resolved lists.
C9_BestIsElementwiseOr ==
    (AfterUpdate("ifeval", "best") /\ SharedIds)
      => /\ raised = ""
         /\ \A level \in Levels : BestAsSpecified(level)
         /\ ev = update("ifeval", prev_ev, <<ResolvedRecord>>, "first").ev

\* two records that each miss a different instruction resolve to a
\* followed prompt
C9_Witness ==
    /\ AfterUpdate("ifeval", "best")
    /\ SharedIds
    /\ Len(data) = 2
    /\ data[1].strict_eval.follow_instruction_list = <<TRUE, FALSE>>
    /\ data[2].strict_eval.follow_instruction_list = <<FALSE, TRUE>>
    /\ ev.strict_stats.prompt.correct = prev_ev.strict_stats.prompt.correct + 1
    /\ ev.strict_stats.instruction.correct
         = prev_ev.strict_stats.instruction.correct + 2

\* C10: MathEval.update in 'best' mode on a non-empty group: total +1;
\* total_correct +1 exactly when some record is correct; total_no_answer +1
\* exactly when every record has a null predicted_answer.
C10_BestAnyCorrectAllNull ==
    AfterUpdate("math", "best")
      => /\ raised = ""
         /\ ev.total = prev_ev.total + 1
         /\ ev.total_correct = prev_ev.total_correct
              + B2I({ i \in 1..Len(data) : data[i].is_correct } # {})
         /\ ev.total_no_answer = prev_ev.total_no_answer
              + B2I(Answered = {})

\* one correct record beside one without an answer: correct, not no-answer
C10_Witness ==
    /\ AfterUpdate("math", "best")
    /\ Len(data) = 2
    /\ data[1].is_correct
    /\ data[2].predicted_answer = None
    /\ ev.total_correct = prev_ev.total_correct + 1
    /\ ev.total_no_answer = prev_ev.total_no_answer

\* the accuracy get_metrics returned last, by kind ("prompt", "instruction")
\* and strictness level
AccuracyOf(kind, level) ==
    CASE kind = "prompt" /\ level = "strict" -> metrics.prompt_strict_accuracy
      [] kind = "prompt" /\ level = "loose" -> metrics.prompt_loose_accuracy
      [] kind = "instruction" /\ level = "strict" -> metrics.instruction_strict_accuracy
      [] kind = "instruction" /\ level = "loose" -> metrics.instruction_loose_accuracy

\* the counters of a kind at a level
TrialsOf(kind, level) ==
    IF kind = "prompt" THEN StatsOf(ev, level).prompt
    ELSE StatsOf(ev, level).instruction

\* C11: each of the four accuracies IFEval.get_metrics returns is the correct
\* counter of its own strictness level divided by the total counter of that
\* same level, times 100: the loose accuracies against the loose prompt and
\* instruction totals, the strict ones against the strict totals.
C11_AccuracyOverOwnTotal ==
    (family = "ifeval" /\ last_call = "get_metrics" /\ raised = "")
      => \A kind \in {"prompt", "instruction"} : \A level \in Levels :
           TrialsOf(kind, level).total > 0
             => AccuracyOf(kind, level)
                  = Percent(TrialsOf(kind, level).correct, TrialsOf(kind, level).total)

\* C12: MathEval.update in a supported mode counts no group both as correct
\* and as no-answer, so total_correct + total_no_answer <= total in every
\* state, and the wrong-answer share get_metrics reports is never negative.
C12_CorrectExcludesNoAnswer ==
    family = "math"
      => /\ (last_call = "update" /\ raised = "")
              => ~ /\ ev.total_correct > prev_ev.total_correct
                   /\ ev.total_no_answer > prev_ev.total_no_answer
         /\ ev.total_correct + ev.total_no_answer <= ev.total
         /\ (last_call = "get_metrics" /\ raised = "")
              => metrics.wrong_answer[1] >= 0
====
